---------------------------- MODULE Spec2Model ----------------------------
(***************************************************************************)
(* A model of the review dashboard's dataset importer                      *)
(* (scripts/import-yelp.ts), of the risk classification and the            *)
(* reputation metrics (lib/reputation-risk.ts), of the reviews query       *)
(* (GET /api/reviews), of the businesses listing (GET /api/businesses)     *)
(* and of the dashboard page.  Each has its own specification over the     *)
(* same variables: Spec and SpecBusiness run the importer, SpecMetrics     *)
(* calls computeReputationMetrics, SpecReviews and SpecBusinesses serve    *)
(* one request, SpecPage follows the page from its mount.                  *)
(*                                                                         *)
(* The importer is one async function, main, that awaits one persistence   *)
(* call at a time.  Each action below is one step of it between two        *)
(* awaits: the file check, the read-filter-sort of the business file, one  *)
(* iteration of the business upsert loop, one iteration of the review     *)
(* loop.  The two tables are sets of rows, so that a duplicate key is a    *)
(* state the model could be in if upsert did not prevent it.               *)
(*                                                                         *)
(* A source file is the sequence of records readJsonLines yields from it   *)
(* (a line that does not parse yields nothing).  Of a record only the      *)
(* fields the importer's decisions read are kept: text, date, stars of a   *)
(* business and its categories are copied to the row and decide nothing.   *)
(***************************************************************************)
EXTENDS Integers, Sequences, FiniteSets, TLC

VARIABLES
    businessFileExists,     \* fs.existsSync(BUSINESS_FILE)
    reviewFileExists,       \* fs.existsSync(REVIEW_FILE)
    businessFile,           \* records of BUSINESS_FILE, in file order
    reviewFile,             \* records of REVIEW_FILE, in file order
    dbBusiness,             \* rows of prisma.business
    dbReview,               \* rows of prisma.review
    pc,                     \* where main is
    businesses,             \* importBusinesses: the filtered, sorted array
    bizIdx,                 \* importBusinesses: iterations of the upsert loop done
    businessIds,            \* importBusinesses: the Set it returns
    imported,               \* importBusinesses: counter
    revIdx,                 \* importReviews: records read from the review file
    reviewCountByBusiness,  \* importReviews: Map business_id -> count
    totalImported,          \* importReviews: counter
    skipped,                \* importReviews: counter
    errorsLogged,           \* console.error calls of the catch blocks, this run
    upsertCalls,            \* prisma upsert calls issued, this run
    runs,                   \* runs of the script started so far
    startBusiness,          \* prisma.business as it was when this run started
    startReview,            \* prisma.review as it was when this run started
    prevClean,              \* the previous run completed, with no failure, on this source
    now,                    \* the clock, in days: new Date(), Date.now()
    allReviews,             \* computeReputationMetrics: what findMany resolves to
    enginePc,               \* computeReputationMetrics: called or returned
    metrics,                \* computeReputationMetrics: the value it returned
    statusBefore,           \* the status returned before the last review was stored
    request,                \* GET /api/reviews: the search parameters
    routePc,                \* GET /api/reviews: where the handler is
    where,                  \* GET /api/reviews: the filter object
    reviews,                \* GET /api/reviews: what findMany resolved to
    response,               \* GET /api/reviews: the response returned
    queries,                \* GET /api/reviews: storage queries executed
    listPc,                 \* GET /api/businesses: where the handler is
    listed,                 \* GET /api/businesses: what findMany resolved to (businesses)
    pending,                \* GET /api/businesses: callbacks of the map not yet resolved
    entries,                \* GET /api/businesses: what the resolved callbacks returned
    listResponse,           \* GET /api/businesses: the response returned
    pagePc,                 \* dashboard page: loading (businesses) or ready
    selectedBusinessId,     \* dashboard page: state
    needsAttention,         \* dashboard page: state
    pageReviews,            \* dashboard page: state (reviews), the list displayed
    reviewsLoading,         \* dashboard page: state
    inFlight,               \* dashboard page: fetches of fetchReviews not yet settled
    issued,                 \* dashboard page: fetches of fetchReviews started so far
    fetchFailed             \* dashboard page: some fetch of fetchReviews was rejected

importerVars ==
    <<businessFileExists, reviewFileExists, businessFile, reviewFile,
      dbBusiness, dbReview, pc, businesses, bizIdx, businessIds, imported,
      revIdx, reviewCountByBusiness, totalImported, skipped, errorsLogged,
      upsertCalls, runs, startBusiness, startReview, prevClean>>

engineVars == <<now, allReviews, enginePc, metrics, statusBefore>>

(* What the request-time code holds; the importer touches none of it. *)
routeVars == <<request, routePc, where, reviews, response, queries>>

listVars == <<listPc, listed, pending, entries, listResponse>>

pageVars == <<pagePc, selectedBusinessId, needsAttention, pageReviews,
              reviewsLoading, inFlight, issued, fetchFailed>>

appVars == <<engineVars, routeVars, listVars, pageVars>>

vars == <<importerVars, appVars>>

sourceVars == <<businessFileExists, reviewFileExists, businessFile, reviewFile>>
dbVars == <<dbBusiness, dbReview>>
businessLocals == <<businesses, bizIdx, businessIds, imported>>
reviewLocals == <<revIdx, reviewCountByBusiness, totalImported, skipped>>
runVars == <<runs, startBusiness, startReview, prevClean>>

---------------------------------------------------------------------------
(* Configuration of the importer.  The script sets 100 and 50; the model   *)
(* keeps the two caps and their product and scales them down.              *)

MAX_BUSINESSES == 2
MAX_REVIEWS_PER_BUSINESS == 1

(* Bounds of the model. *)
MaxBizLines == 3        \* records in a business file
MaxRevLines == 3        \* records in a review file
MaxRuns == 2            \* runs of the script
MaxFailures == 1        \* persistence calls that fail in one run

---------------------------------------------------------------------------
(* Risk classification: lib/reputation-risk.ts *)

Ratings == 1..5

getRiskLevelFromRating_TwoIsMedium(rating) ==
    IF rating < 2 THEN "HIGH_RISK"
    ELSE IF rating <= 3 THEN "MEDIUM_RISK"
    ELSE "LOW_RISK"

getRiskLevelFromRating(rating) ==
    IF rating <= 2 THEN "HIGH_RISK"
    ELSE IF rating = 3 THEN "MEDIUM_RISK"
    ELSE "LOW_RISK"

---------------------------------------------------------------------------
(* Source records *)

YelpBusiness(id, name, city, state, count) ==
    [business_id |-> id, name |-> name, city |-> city, state |-> state,
     review_count |-> count]

YelpReview(id, business, stars) ==
    [review_id |-> id, business_id |-> business, stars |-> stars]

BusinessIdSet == {"b1", "b2", "b3"}

(* Three businesses that pass the filter, the later the more reviewed, and *)
(* four that each fail one condition of it.                                *)
ValidBusinessRecords ==
    { YelpBusiness("b1", "N1", "C", "S", 1),
      YelpBusiness("b2", "N2", "C", "S", 2),
      YelpBusiness("b3", "N3", "C", "S", 3) }

InvalidBusinessRecords ==
    { YelpBusiness("b3", "N3", "C", "S", 0),
      YelpBusiness("b3", "",   "C", "S", 3),
      YelpBusiness("b3", "N3", "",  "S", 3),
      YelpBusiness("b3", "N3", "C", "",  3) }

BusinessRecords == ValidBusinessRecords \cup InvalidBusinessRecords

(* Reviews of ratings 1..5: r1 comes with two ratings, r2 with two         *)
(* businesses, and b1 and b2 each have more reviews than the cap.          *)
ReviewRecords ==
    { YelpReview("r1", "b1", 1), YelpReview("r1", "b1", 5),
      YelpReview("r2", "b1", 2), YelpReview("r2", "b2", 3),
      YelpReview("r3", "b2", 4) }

SeqsUpTo(S, n) == UNION { [1..k -> S] : k \in 0..n }

(* A later review file: one record, of any kind. *)
LaterReviewFiles == { <<r>> : r \in ReviewRecords }

---------------------------------------------------------------------------
(* Storage: prisma.<table>.upsert({ where: {id}, update: {}, create })     *)

BusinessRow(business) ==
    [id |-> business.business_id, name |-> business.name,
     city |-> business.city, state |-> business.state,
     reviewCount |-> business.review_count]

ReviewRow(review) ==
    [id |-> review.review_id, businessId |-> review.business_id,
     rating |-> review.stars,
     riskLevel |-> getRiskLevelFromRating(review.stars)]

UpsertBusiness(table, row) ==
    IF \E r \in table : r.id = row.id THEN table ELSE table \cup {row}

UpsertReview_UpdatesRating(table, row) ==
    IF \E r \in table : r.id = row.id
    THEN { IF r.id = row.id THEN [r EXCEPT !.rating = row.rating] ELSE r :
           r \in table }
    ELSE table \cup {row}

UpsertReview(table, row) ==
    IF \E r \in table : r.id = row.id THEN table ELSE table \cup {row}

---------------------------------------------------------------------------
(* importBusinesses: the read loop and the sort *)

Qualifies_NoStateCheck(business) ==
    /\ business.review_count > 0
    /\ business.name # ""
    /\ business.city # ""

Qualifies(business) ==
    /\ business.review_count > 0
    /\ business.name # ""
    /\ business.city # ""
    /\ business.state # ""

RECURSIVE ReadLoop(_, _, _)
ReadLoop(file, i, acc) ==
    IF i > Len(file) THEN acc
    ELSE IF Qualifies(file[i])
         THEN LET pushed == Append(acc, file[i])
              IN  IF Len(pushed) >= MAX_BUSINESSES THEN pushed
                  ELSE ReadLoop(file, i + 1, pushed)
         ELSE ReadLoop(file, i + 1, acc)

RECURSIVE ReadLoopNoBreak(_, _, _)
ReadLoopNoBreak(file, i, acc) ==
    IF i > Len(file) THEN acc
    ELSE IF Qualifies(file[i])
         THEN ReadLoopNoBreak(file, i + 1, Append(acc, file[i]))
         ELSE ReadLoopNoBreak(file, i + 1, acc)

ReadQualifying_NoBreak(file) == ReadLoopNoBreak(file, 1, <<>>)

ReadQualifying(file) == ReadLoop(file, 1, <<>>)

(* Array.prototype.sort with (a, b) => b.review_count - a.review_count:    *)
(* descending, and stable.                                                 *)
RECURSIVE InsertByReviewCount(_, _)
InsertByReviewCount(sorted, b) ==
    IF sorted = <<>> THEN <<b>>
    ELSE IF Head(sorted).review_count >= b.review_count
         THEN <<Head(sorted)>> \o InsertByReviewCount(Tail(sorted), b)
         ELSE <<b>> \o sorted

RECURSIVE SortByReviewCount(_)
SortByReviewCount(list) ==
    IF list = <<>> THEN <<>>
    ELSE InsertByReviewCount(
             SortByReviewCount(SubSeq(list, 1, Len(list) - 1)),
             list[Len(list)])

---------------------------------------------------------------------------
(* The state before the script has run: empty tables, and source files     *)
(* that either exist, with some records, or do not.                        *)

(* No call of computeReputationMetrics is under way. *)
NoMetrics == [reputationStatus |-> "none"]

EngineAtRest ==
    /\ now = 0
    /\ allReviews = <<>>
    /\ enginePc = "idle"
    /\ metrics = NoMetrics
    /\ statusBefore = "none"

(* A search parameter is the set of the values searchParams.get can give: *)
(* empty when the parameter is absent (null).  So is an optional key of    *)
(* the filter object.                                                      *)
Absent == {}

NoRequest ==
    [businessId |-> Absent, riskLevel |-> Absent, rating |-> Absent,
     minRating |-> Absent, maxRating |-> Absent, limit |-> Absent,
     needsAttention |-> Absent]

EmptyWhere ==
    [businessId |-> Absent, riskLevel |-> Absent, date_gte |-> Absent,
     rating |-> Absent, rating_gte |-> Absent, rating_lte |-> Absent]

NoDistribution == [HIGH_RISK |-> 0, MEDIUM_RISK |-> 0, LOW_RISK |-> 0]

NoResponse ==
    [status |-> 0, error |-> "", reviews |-> <<>>,
     distribution |-> NoDistribution]

(* No request to GET /api/reviews is under way. *)
RouteAtRest ==
    /\ request = NoRequest
    /\ routePc = "idle"
    /\ where = EmptyWhere
    /\ reviews = <<>>
    /\ response = NoResponse
    /\ queries = 0

(* No request to GET /api/businesses is under way. *)
ListAtRest ==
    /\ listPc = "idle"
    /\ listed = <<>>
    /\ pending = {}
    /\ entries = <<>>
    /\ listResponse = [status |-> 0, businesses |-> <<>>]

(* The dashboard page is not open. *)
PageAtRest ==
    /\ pagePc = "closed"
    /\ selectedBusinessId = ""
    /\ needsAttention = FALSE
    /\ pageReviews = <<>>
    /\ reviewsLoading = FALSE
    /\ inFlight = {}
    /\ issued = 0
    /\ fetchFailed = FALSE

SourceChoices(files) ==
    { [exists |-> TRUE, records |-> f] : f \in files }
        \cup { [exists |-> FALSE, records |-> <<>>] }

NoCounts == [b \in BusinessIdSet |-> 0]

InitFrom(businessFiles, reviewFiles) ==
    /\ \E bf \in SourceChoices(businessFiles) :
          /\ businessFileExists = bf.exists
          /\ businessFile = bf.records
    /\ \E rf \in SourceChoices(reviewFiles) :
          /\ reviewFileExists = rf.exists
          /\ reviewFile = rf.records
    /\ dbBusiness = {}
    /\ dbReview = {}
    /\ pc = "idle"
    /\ businesses = <<>>
    /\ bizIdx = 0
    /\ businessIds = {}
    /\ imported = 0
    /\ revIdx = 0
    /\ reviewCountByBusiness = NoCounts
    /\ totalImported = 0
    /\ skipped = 0
    /\ errorsLogged = 0
    /\ upsertCalls = 0
    /\ runs = 0
    /\ startBusiness = {}
    /\ startReview = {}
    /\ prevClean = FALSE
    /\ EngineAtRest
    /\ RouteAtRest
    /\ ListAtRest
    /\ PageAtRest

---------------------------------------------------------------------------
(* main *)

FilesVerified_BusinessFileOnly == businessFileExists

FilesVerified == businessFileExists /\ reviewFileExists

(* main starts: a fresh process, whose locals are the initial ones. It     *)
(* throws before the try block when a file is missing.                     *)
Main ==
    /\ pc = "idle"
    /\ runs < MaxRuns
    /\ runs' = runs + 1
    /\ pc' = IF FilesVerified THEN "readBusinesses" ELSE "failed"
    /\ UNCHANGED <<sourceVars, dbVars, businessLocals, reviewLocals,
                   errorsLogged, upsertCalls, startBusiness, startReview,
                   prevClean>>
    /\ UNCHANGED appVars

(* importBusinesses, up to the upsert loop. Reading a file that is not     *)
(* there rejects, and nothing in importBusinesses or main handles it.      *)
ReadBusinesses ==
    /\ pc = "readBusinesses"
    /\ IF businessFileExists
       THEN /\ businesses' = SortByReviewCount(ReadQualifying(businessFile))
            /\ pc' = "upsertBusinesses"
       ELSE /\ businesses' = businesses
            /\ pc' = "failed"
    /\ UNCHANGED <<sourceVars, dbVars, bizIdx, businessIds, imported,
                   reviewLocals, errorsLogged, upsertCalls, runVars>>
    /\ UNCHANGED appVars

(* One iteration of the upsert loop, the upsert resolving. *)
UpsertBusinessOk ==
    /\ pc = "upsertBusinesses"
    /\ bizIdx < Len(businesses)
    /\ LET business == businesses[bizIdx + 1]
       IN  /\ dbBusiness' = UpsertBusiness(dbBusiness, BusinessRow(business))
           /\ businessIds' = businessIds \cup {business.business_id}
    /\ imported' = imported + 1
    /\ bizIdx' = bizIdx + 1
    /\ upsertCalls' = upsertCalls + 1
    /\ UNCHANGED <<sourceVars, dbReview, pc, businesses, reviewLocals,
                   errorsLogged, runVars>>
    /\ UNCHANGED appVars

(* One iteration of the upsert loop, the upsert rejecting: the catch block *)
(* logs and the loop goes on.                                              *)
UpsertBusinessFails ==
    /\ pc = "upsertBusinesses"
    /\ bizIdx < Len(businesses)
    /\ errorsLogged < MaxFailures
    /\ errorsLogged' = errorsLogged + 1
    /\ bizIdx' = bizIdx + 1
    /\ upsertCalls' = upsertCalls + 1
    /\ UNCHANGED <<sourceVars, dbVars, pc, businesses, businessIds, imported,
                   reviewLocals, runVars>>
    /\ UNCHANGED appVars

(* The for loop over businesses ends once every element has had its       *)
(* awaited upsert.                                                         *)
BusinessLoopDone_NotAwaited == bizIdx <= Len(businesses)

BusinessLoopDone == bizIdx = Len(businesses)

(* importBusinesses returns and importReviews opens the review file. *)
BusinessesImported ==
    /\ pc = "upsertBusinesses"
    /\ BusinessLoopDone
    /\ pc' = IF reviewFileExists THEN "importReviews" ELSE "failed"
    /\ UNCHANGED <<sourceVars, dbVars, businessLocals, reviewLocals,
                   errorsLogged, upsertCalls, runVars>>
    /\ UNCHANGED appVars

---------------------------------------------------------------------------
(* importReviews: one action per iteration of the loop *)

CurrentCount(review) == reviewCountByBusiness[review.business_id]

ShouldSkip_NoBusinessCheck(review) ==
    CurrentCount(review) >= MAX_REVIEWS_PER_BUSINESS

ShouldSkip_NoLimit(review) ==
    ~(review.business_id \in businessIds)

ShouldSkip(review) ==
    \/ ~(review.business_id \in businessIds)
    \/ CurrentCount(review) >= MAX_REVIEWS_PER_BUSINESS

CountAfterImport_OnlyNewRows(review) ==
    IF \E r \in dbReview : r.id = review.review_id
    THEN CurrentCount(review)
    ELSE CurrentCount(review) + 1

CountAfterImport(review) == CurrentCount(review) + 1

(* The break of the review loop. *)
ImportedEnough_Exceeded(total) == total > MAX_BUSINESSES * MAX_REVIEWS_PER_BUSINESS

ImportedEnough(total) == total >= MAX_BUSINESSES * MAX_REVIEWS_PER_BUSINESS

SkipReview ==
    /\ pc = "importReviews"
    /\ revIdx < Len(reviewFile)
    /\ ShouldSkip(reviewFile[revIdx + 1])
    /\ skipped' = skipped + 1
    /\ revIdx' = revIdx + 1
    /\ UNCHANGED <<sourceVars, dbVars, pc, businessLocals,
                   reviewCountByBusiness, totalImported, errorsLogged,
                   upsertCalls, runVars>>
    /\ UNCHANGED appVars

ImportReview ==
    /\ pc = "importReviews"
    /\ revIdx < Len(reviewFile)
    /\ LET review == reviewFile[revIdx + 1]
       IN  /\ ~ShouldSkip(review)
           /\ dbReview' = UpsertReview(dbReview, ReviewRow(review))
           /\ reviewCountByBusiness' =
                  [reviewCountByBusiness EXCEPT
                      ![review.business_id] = CountAfterImport(review)]
    /\ totalImported' = totalImported + 1
    /\ revIdx' = revIdx + 1
    /\ upsertCalls' = upsertCalls + 1
    /\ pc' = IF ImportedEnough(totalImported') THEN "done" ELSE "importReviews"
    /\ UNCHANGED <<sourceVars, dbBusiness, businessLocals, skipped,
                   errorsLogged, runVars>>
    /\ UNCHANGED appVars

(* The upsert rejects: the catch block logs, and counts nothing. *)
ImportReviewFails ==
    /\ pc = "importReviews"
    /\ revIdx < Len(reviewFile)
    /\ ~ShouldSkip(reviewFile[revIdx + 1])
    /\ errorsLogged < MaxFailures
    /\ errorsLogged' = errorsLogged + 1
    /\ revIdx' = revIdx + 1
    /\ upsertCalls' = upsertCalls + 1
    /\ UNCHANGED <<sourceVars, dbVars, pc, businessLocals,
                   reviewCountByBusiness, totalImported, skipped, runVars>>
    /\ UNCHANGED appVars

(* The review file ends: the totals are printed and main completes. *)
ReviewsRead ==
    /\ pc = "importReviews"
    /\ revIdx = Len(reviewFile)
    /\ pc' = "done"
    /\ UNCHANGED <<sourceVars, dbVars, businessLocals, reviewLocals,
                   errorsLogged, upsertCalls, runVars>>
    /\ UNCHANGED appVars

---------------------------------------------------------------------------
(* The operator, between two runs of the script *)

ProcessExited == pc \in {"done", "failed"}

(* The next process starts with its own locals, over the tables as the     *)
(* last one left them.                                                     *)
FreshProcess ==
    /\ pc' = "idle"
    /\ businesses' = <<>>
    /\ bizIdx' = 0
    /\ businessIds' = {}
    /\ imported' = 0
    /\ revIdx' = 0
    /\ reviewCountByBusiness' = NoCounts
    /\ totalImported' = 0
    /\ skipped' = 0
    /\ errorsLogged' = 0
    /\ upsertCalls' = 0
    /\ startBusiness' = dbBusiness
    /\ startReview' = dbReview
    /\ UNCHANGED <<dbVars, runs>>
    /\ UNCHANGED appVars

(* The script is run again on the same files. *)
RunAgain ==
    /\ ProcessExited
    /\ runs < MaxRuns
    /\ FreshProcess
    /\ prevClean' = (pc = "done" /\ errorsLogged = 0)
    /\ UNCHANGED sourceVars

(* The review file is replaced by a later one before the next run. *)
ReplaceReviewFile ==
    /\ ProcessExited
    /\ runs < MaxRuns
    /\ FreshProcess
    /\ prevClean' = FALSE
    /\ reviewFileExists' = TRUE
    /\ reviewFile' \in LaterReviewFiles
    /\ UNCHANGED <<businessFileExists, businessFile>>

(* A source file is removed before the next run. *)
RemoveSourceFile ==
    /\ ProcessExited
    /\ runs < MaxRuns
    /\ FreshProcess
    /\ prevClean' = FALSE
    /\ \/ /\ businessFileExists' = FALSE
          /\ businessFile' = <<>>
          /\ UNCHANGED <<reviewFileExists, reviewFile>>
       \/ /\ reviewFileExists' = FALSE
          /\ reviewFile' = <<>>
          /\ UNCHANGED <<businessFileExists, businessFile>>

---------------------------------------------------------------------------

Next ==
    \/ Main
    \/ ReadBusinesses
    \/ UpsertBusinessOk
    \/ UpsertBusinessFails
    \/ BusinessesImported
    \/ SkipReview
    \/ ImportReview
    \/ ImportReviewFails
    \/ ReviewsRead
    \/ RunAgain
    \/ ReplaceReviewFile
    \/ RemoveSourceFile

(* Review files of every shape, over a few business files. *)
CoreBusinessFiles ==
    { << YelpBusiness("b1", "N1", "C", "S", 1),
         YelpBusiness("b2", "N2", "C", "S", 2),
         YelpBusiness("b3", "N3", "C", "S", 3) >>,
      << YelpBusiness("b3", "N3", "C", "", 3),
         YelpBusiness("b3", "N3", "C", "S", 3),
         YelpBusiness("b1", "N1", "C", "S", 1) >>,
      << YelpBusiness("b2", "N2", "C", "S", 2) >> }

Init == InitFrom(CoreBusinessFiles, SeqsUpTo(ReviewRecords, MaxRevLines))

Spec == Init /\ [][Next]_vars

(* Business files of every shape, over a few review files. *)
CoreReviewFiles ==
    { << YelpReview("r1", "b1", 1), YelpReview("r2", "b1", 2),
         YelpReview("r3", "b2", 4) >> }

InitBusiness == InitFrom(SeqsUpTo(BusinessRecords, MaxBizLines), CoreReviewFiles)

SpecBusiness == InitBusiness /\ [][Next]_vars

---------------------------------------------------------------------------
(* What the claims read from a state *)

RunStarted == pc # "idle"
BusinessPassDone == pc \in {"importReviews", "done"}
InReviewPass == pc \in {"importReviews", "done"}
StoredBusinessIds == { b.id : b \in dbBusiness }
CreatedBusinesses == dbBusiness \ startBusiness
CreatedReviews == dbReview \ startReview
CreatedReviewsOf(b) == { r \in CreatedReviews : r.businessId = b }
ReadSoFar == 1..revIdx
NoDuplicateKeys ==
    /\ \A a, b \in dbBusiness : a.id = b.id => a = b
    /\ \A a, b \in dbReview : a.id = b.id => a = b

---------------------------------------------------------------------------
(* C1: getRiskLevelFromRating(r) is HIGH_RISK iff r <= 2, MEDIUM_RISK iff  *)
(* r = 3 and LOW_RISK iff r >= 4, for every rating r of 1..5 (and so for   *)
(* every rating a review file or a stored row holds).                      *)
C1_RiskLevelOfRating ==
    \A r \in Ratings \cup { reviewFile[i].stars : i \in DOMAIN reviewFile }
                     \cup { row.rating : row \in dbReview } :
        /\ getRiskLevelFromRating(r) = "HIGH_RISK" <=> r <= 2
        /\ getRiskLevelFromRating(r) = "MEDIUM_RISK" <=> r = 3
        /\ getRiskLevelFromRating(r) = "LOW_RISK" <=> r >= 4

(* Reviews of all three levels have been classified and stored. *)
C1_Witness ==
    /\ \E r \in dbReview : r.rating <= 2 /\ r.riskLevel = "HIGH_RISK"
    /\ \E r \in dbReview : r.rating = 3 /\ r.riskLevel = "MEDIUM_RISK"
    /\ \E r \in dbReview : r.rating >= 4 /\ r.riskLevel = "LOW_RISK"

(* C2: in every state the importer reaches, over any number of runs and    *)
(* also when a later source gives a stored review identifier another       *)
(* rating, each stored review's riskLevel is the classification of that    *)
(* row's stored rating.                                                    *)
C2_RiskTagMatchesRating ==
    \A row \in dbReview : row.riskLevel = getRiskLevelFromRating(row.rating)

(* The review file was replaced after a run that stored two reviews, and   *)
(* the upsert of its record, whose identifier is stored with another       *)
(* rating of another risk level, has resolved.                             *)
C2_Witness ==
    /\ Cardinality(startReview) = 2
    /\ Len(reviewFile) = 1
    /\ revIdx = 1
    /\ totalImported = 1
    /\ \E row \in startReview :
          /\ row.id = reviewFile[1].review_id
          /\ row.rating # reviewFile[1].stars
          /\ row.riskLevel # getRiskLevelFromRating(reviewFile[1].stars)

C5_NoOrphanReview ==
    /\ businessIds \subseteq StoredBusinessIds
    /\ \A row \in dbReview : row.businessId \in StoredBusinessIds
    /\ \A row \in CreatedReviews : row.businessId \in businessIds

(* A business upsert failed, a review of a business outside the returned   *)
(* set has been read and skipped, and a review has been written.           *)
C5_Witness ==
    /\ InReviewPass
    /\ errorsLogged = 1
    /\ Len(businesses) > Cardinality(businessIds)
    /\ \E i \in ReadSoFar : reviewFile[i].business_id \notin businessIds
    /\ CreatedReviews # {}

(* C6: a run on the same source files as the run before it, neither with a *)
(* failed persistence call, leaves the business and the review rows as     *)
(* they were when it started, and no key is stored twice.                  *)
C6_Idempotent ==
    /\ NoDuplicateKeys
    /\ (RunStarted /\ prevClean /\ errorsLogged = 0) =>
           /\ dbBusiness = startBusiness
           /\ dbReview = startReview

(* The second run has completed, on a source of which the first run        *)
(* stored reviews and skipped others.                                      *)
C6_Witness ==
    /\ prevClean
    /\ pc = "done"
    /\ errorsLogged = 0
    /\ skipped > 0
    /\ totalImported > 0
    /\ Cardinality(dbReview) >= 2

(* C7, as claimed: the businesses imported are the top MAX_BUSINESSES by   *)
(* review count, so that no qualifying business of the file that is left   *)
(* out has a higher review count than one that is imported.                *)
C7_TopByReviewCount ==
    (BusinessPassDone /\ errorsLogged = 0) =>
        \A i, j \in DOMAIN businessFile :
            ( /\ Qualifies(businessFile[i])
              /\ Qualifies(businessFile[j])
              /\ businessFile[i].business_id \notin businessIds
              /\ businessFile[j].business_id \in businessIds )
            => businessFile[i].review_count <= businessFile[j].review_count

(* C8: every stored business row has a positive review count and a         *)
(* non-empty name, city and state.                                         *)
C8_StoredBusinessesQualify ==
    \A row \in dbBusiness :
        /\ row.reviewCount > 0
        /\ row.name # ""
        /\ row.city # ""
        /\ row.state # ""

(* The pass read a record with an empty state and one with no reviews      *)
(* before it stored a business.                                            *)
C8_Witness ==
    /\ BusinessPassDone
    /\ Len(businessFile) = 3
    /\ businessFile[1].state = ""
    /\ businessFile[2].review_count = 0
    /\ businessFile[3].business_id \in StoredBusinessIds

(* C9: a run that finds a source file missing has failed, has issued no    *)
(* upsert and has left both tables as they were; a run fails on nothing    *)
(* else.                                                                   *)
C9_MissingFileAborts ==
    /\ (RunStarted /\ ~(businessFileExists /\ reviewFileExists)) =>
           /\ pc = "failed"
           /\ upsertCalls = 0
           /\ dbBusiness = startBusiness
           /\ dbReview = startReview
    /\ pc = "failed" => ~(businessFileExists /\ reviewFileExists)

(* A run has failed on a missing review file, over tables that an earlier  *)
(* run filled.                                                             *)
C9_Witness ==
    /\ pc = "failed"
    /\ businessFileExists
    /\ ~reviewFileExists
    /\ dbBusiness # {}
    /\ dbReview # {}

(* C10, as claimed: every review record read is counted as imported or as  *)
(* skipped, a record whose upsert failed among the skipped.                *)
C10_EveryRecordCounted ==
    InReviewPass => totalImported + skipped = revIdx

---------------------------------------------------------------------------
(* Steps of a run, as the claims about its order read them *)

ReviewUpsertIssued == revIdx' = revIdx + 1 /\ upsertCalls' = upsertCalls + 1
BusinessUpsertIssued == bizIdx' = bizIdx + 1
ReviewRecordRead == revIdx' = revIdx + 1

(* C11: the two passes are sequential.  A review upsert is issued only     *)
(* when the business loop has made its upsert call for every business of   *)
(* the array and the id set is final (every business, when no call         *)
(* failed); a business upsert is issued only before any review record is   *)
(* read; and a step issues at most one persistence call.                   *)
C11_PassesSequential ==
    [][ /\ ReviewUpsertIssued =>
              /\ bizIdx = Len(businesses)
              /\ upsertCalls >= Len(businesses)
              /\ businessIds' = businessIds
              /\ dbBusiness' = dbBusiness
              /\ errorsLogged = 0 =>
                     businessIds = { businesses[i].business_id :
                                        i \in DOMAIN businesses }
        /\ BusinessUpsertIssued =>
              /\ revIdx = 0 /\ revIdx' = 0
              /\ dbReview' = dbReview
              /\ upsertCalls = bizIdx
        /\ upsertCalls' \in {0, upsertCalls, upsertCalls + 1} ]_vars

(* A review has been stored by a run whose business pass upserted two      *)
(* businesses.                                                             *)
C11_Witness ==
    /\ pc = "importReviews"
    /\ Len(businesses) = 2
    /\ bizIdx = 2
    /\ revIdx >= 1
    /\ CreatedReviews # {}

(* C12: the review pass stops at the global cap.  totalImported never      *)
(* exceeds MAX_BUSINESSES * MAX_REVIEWS_PER_BUSINESS, the pass is over as  *)
(* soon as it reaches it, and from then on the run reads no review record  *)
(* and changes no review row.                                              *)
C12_StopsAtGlobalCap ==
    /\ [](totalImported <= MAX_BUSINESSES * MAX_REVIEWS_PER_BUSINESS)
    /\ [](totalImported >= MAX_BUSINESSES * MAX_REVIEWS_PER_BUSINESS
              => pc = "done")
    /\ [][ totalImported >= MAX_BUSINESSES * MAX_REVIEWS_PER_BUSINESS =>
              /\ ~ReviewRecordRead
              /\ dbReview' = dbReview ]_vars

(* The pass has stopped at the cap with a record of the file left unread. *)
C12_Witness ==
    /\ pc = "done"
    /\ totalImported = MAX_BUSINESSES * MAX_REVIEWS_PER_BUSINESS
    /\ revIdx < Len(reviewFile)

---------------------------------------------------------------------------
(* computeReputationMetrics (lib/reputation-risk.ts)                       *)
(*                                                                         *)
(* Time is counted in days and a Date is an integer; the three boundaries  *)
(* 30 * 24 * 60 * 60 * 1000 ms and so on are 30, 7 and 14.  An average is  *)
(* the pair <<sum, count>> of the division that produces it, and null is   *)
(* the empty tuple.  The call reads the reviews of one business: what      *)
(* findMany resolves to is a list of {rating, date}, in no promised order. *)

MaxReviews == 5         \* reviews a business has when the engine is called

Null == <<>>

(* Dates of the stored reviews, as offsets from the day of the call: one   *)
(* day outside the 30-day window and the far edge of each window.          *)
DateOffsets == <<-31, -30, -14, -7>>

NumKinds == Cardinality(Ratings) * Len(DateOffsets)

ReviewKind(i) ==
    [rating |-> ((i - 1) % Cardinality(Ratings)) + 1,
     date   |-> DateOffsets[((i - 1) \div Cardinality(Ratings)) + 1]]

(* The lists of k kinds, one list per multiset. *)
RECURSIVE AscendingLists(_)
AscendingLists(k) ==
    IF k = 0 THEN { <<>> }
    ELSE { Append(p[1], p[2]) :
             p \in { q \in AscendingLists(k - 1) \X (1..NumKinds) :
                       q[1] = <<>> \/ q[1][Len(q[1])] <= q[2] } }

ReviewLists(k) ==
    { [j \in DOMAIN s |-> ReviewKind(s[j])] : s \in AscendingLists(k) }

RECURSIVE SumOfRatings(_)
SumOfRatings(rows) ==
    IF rows = <<>> THEN 0
    ELSE Head(rows).rating + SumOfRatings(Tail(rows))

IsLowRating(r) == r.rating <= 2

LifetimeAverage(rows) ==
    IF Len(rows) > 0 THEN <<SumOfRatings(rows), Len(rows)>>
    ELSE <<0, 1>>

RecentAverage_ZeroWhenEmpty(recentReviews) == LifetimeAverage(recentReviews)

RecentAverage(recentReviews) ==
    IF Len(recentReviews) > 0
    THEN <<SumOfRatings(recentReviews), Len(recentReviews)>>
    ELSE Null

(* lifetimeAvgRating - recentAvgRating >= tenths / 10, as the doubles of   *)
(* the source compute it.  Each average is the double nearest to           *)
(* sum / count and the difference is rounded once more: the comparison     *)
(* agrees with the exact one unless the exact difference IS the threshold, *)
(* and then the roundings decide.  For averages of up to 8 ratings the     *)
(* differences that are exactly 0.7 come out as 0.7 or 0.7000000000000002  *)
(* (2.2 - 1.5, 2.5 - 1.8, 3.2 - 2.5, 3.5 - 2.8, 4.2 - 3.5), and those that *)
(* are exactly 0.4 come out as 0.3999999999999999 (1.4 - 1, 2 - 1.6,       *)
(* 2.4 - 2, 3 - 2.6, 3.4 - 3, 4 - 3.6) but for 4.4 - 4, which is           *)
(* 0.40000000000000036.                                                    *)
DoubleReachesAtTie(lifetime, tenths) ==
    \/ tenths = 7
    \/ tenths = 4 /\ 5 * lifetime[1] = 22 * lifetime[2]

RatingDropAtLeast_NullIsZero(lifetime, recent, tenths) ==
    10 * lifetime[1] >= tenths * lifetime[2]

RatingDropAtLeast(lifetime, recent, tenths) ==
    IF recent = Null THEN 0 >= tenths
    ELSE LET diff == lifetime[1] * recent[2] - recent[1] * lifetime[2]
             den  == lifetime[2] * recent[2]
         IN  IF 10 * diff # tenths * den
             THEN 10 * diff > tenths * den
             ELSE DoubleReachesAtTie(lifetime, tenths)

HasLowRatingSpike_Readme(recentLowRatingCount, previousLowRatingCount) ==
    \/ /\ previousLowRatingCount > 0
       /\ recentLowRatingCount >= previousLowRatingCount * 2
       /\ recentLowRatingCount - previousLowRatingCount >= 2
    \/ recentLowRatingCount - previousLowRatingCount >= 3

HasLowRatingSpike_NoBaseline(recentLowRatingCount, previousLowRatingCount) ==
    \/ recentLowRatingCount >= previousLowRatingCount * 2
    \/ recentLowRatingCount - previousLowRatingCount >= 2

HasLowRatingSpike(recentLowRatingCount, previousLowRatingCount) ==
    \/ /\ previousLowRatingCount > 0
       /\ recentLowRatingCount >= previousLowRatingCount * 2
    \/ recentLowRatingCount - previousLowRatingCount >= 2

ReputationStatus(lowRatingRecentCount, lifetime, recent) ==
    IF lowRatingRecentCount >= 3 \/ RatingDropAtLeast(lifetime, recent, 7)
    THEN "AT_RISK"
    ELSE IF lowRatingRecentCount >= 1 \/ RatingDropAtLeast(lifetime, recent, 4)
         THEN "WATCH"
         ELSE "HEALTHY"

(* The two windows of the spike detection. *)
InLast7Days_Exclusive(r, sevenDaysAgo) == r.date > sevenDaysAgo

InLast7Days(r, sevenDaysAgo) == r.date >= sevenDaysAgo

InPrevious7Days(r, fourteenDaysAgo, sevenDaysAgo) ==
    r.date >= fourteenDaysAgo /\ r.date < sevenDaysAgo

computeReputationMetrics(rows, t) ==
    LET thirtyDaysAgo   == t - 30
        sevenDaysAgo    == t - 7
        fourteenDaysAgo == t - 14
        lifetimeAvgRating == LifetimeAverage(rows)
        recentReviews == SelectSeq(rows, LAMBDA r : r.date >= thirtyDaysAgo)
        lowRatingRecentCount == Len(SelectSeq(recentReviews, IsLowRating))
        recentAvgRating == RecentAverage(recentReviews)
        last7DaysReviews ==
            SelectSeq(rows, LAMBDA r : InLast7Days(r, sevenDaysAgo))
        previous7DaysReviews ==
            SelectSeq(rows, LAMBDA r :
                InPrevious7Days(r, fourteenDaysAgo, sevenDaysAgo))
        recentLowRatingCount == Len(SelectSeq(last7DaysReviews, IsLowRating))
        previousLowRatingCount ==
            Len(SelectSeq(previous7DaysReviews, IsLowRating))
    IN  [reputationStatus |->
             ReputationStatus(lowRatingRecentCount, lifetimeAvgRating,
                              recentAvgRating),
         hasLowRatingSpike |->
             HasLowRatingSpike(recentLowRatingCount, previousLowRatingCount),
         recentLowRatingCount |-> recentLowRatingCount,
         previousLowRatingCount |-> previousLowRatingCount,
         recentAvgRating |-> recentAvgRating,
         lifetimeAvgRating |-> lifetimeAvgRating]

(* A request-time caller awaits computeReputationMetrics. *)
ComputeReputationMetrics ==
    /\ enginePc = "called"
    /\ metrics' = computeReputationMetrics(allReviews, now)
    /\ enginePc' = "returned"
    /\ UNCHANGED <<importerVars, routeVars, listVars, pageVars, now, allReviews, statusBefore>>

(* A review dated today is stored for the business, and the metrics are    *)
(* asked for again.                                                        *)
ReviewStoredToday ==
    /\ enginePc = "returned"
    /\ statusBefore = "none"
    /\ Len(allReviews) < MaxReviews
    /\ \E rating \in Ratings :
          allReviews' = Append(allReviews, [rating |-> rating, date |-> now])
    /\ statusBefore' = metrics.reputationStatus
    /\ metrics' = NoMetrics
    /\ enginePc' = "called"
    /\ UNCHANGED <<importerVars, routeVars, listVars, pageVars, now>>

NextMetrics ==
    \/ ComputeReputationMetrics
    \/ ReviewStoredToday

(* The importer is not running while the request-time code is observed. *)
ImporterIdle ==
    /\ businessFileExists = FALSE
    /\ reviewFileExists = FALSE
    /\ businessFile = <<>>
    /\ reviewFile = <<>>
    /\ pc = "idle"
    /\ businesses = <<>>
    /\ bizIdx = 0
    /\ businessIds = {}
    /\ imported = 0
    /\ revIdx = 0
    /\ reviewCountByBusiness = NoCounts
    /\ totalImported = 0
    /\ skipped = 0
    /\ errorsLogged = 0
    /\ upsertCalls = 0
    /\ runs = 0
    /\ startBusiness = {}
    /\ startReview = {}
    /\ prevClean = FALSE

ImporterAtRest ==
    /\ ImporterIdle
    /\ dbBusiness = {}
    /\ dbReview = {}

InitMetrics ==
    /\ ImporterAtRest
    /\ RouteAtRest
    /\ ListAtRest
    /\ PageAtRest
    /\ now = 0
    /\ \E k \in 0..MaxReviews : allReviews \in ReviewLists(k)
    /\ enginePc = "called"
    /\ metrics = NoMetrics
    /\ statusBefore = "none"

SpecMetrics == InitMetrics /\ [][NextMetrics]_vars

---------------------------------------------------------------------------
(* What the claims about the engine read from a state: the windows and     *)
(* the counts, taken from the stored reviews by their definitions, in      *)
(* exact arithmetic.                                                       *)

Returned == enginePc = "returned"
InWindow(from, to) ==
    { i \in DOMAIN allReviews :
        allReviews[i].date >= from /\ allReviews[i].date < to }
Last30Days == InWindow(now - 30, now + 1)
Last7Days == InWindow(now - 7, now + 1)
Previous7Days == InWindow(now - 14, now - 7)
LowRated(window) == { i \in window : allReviews[i].rating <= 2 }
RECURSIVE RatingsOver(_)
RatingsOver(window) ==
    IF window = {} THEN 0
    ELSE LET i == CHOOSE j \in window : TRUE
         IN  allReviews[i].rating + RatingsOver(window \ {i})
(* lifetime average - 30-day average >= tenths / 10, the drop being 0 when *)
(* the 30-day window is empty                                              *)
DropReaches(tenths) ==
    IF Last30Days = {} THEN 0 >= tenths
    ELSE 10 * (RatingsOver(DOMAIN allReviews) * Cardinality(Last30Days)
                 - RatingsOver(Last30Days) * Len(allReviews))
             >= tenths * Len(allReviews) * Cardinality(Last30Days)
StoredOneStarToday ==
    /\ statusBefore # "none"
    /\ allReviews[Len(allReviews)] = [rating |-> 1, date |-> now]

(* C13: for a business with no stored reviews computeReputationMetrics     *)
(* returns lifetime average 0, recent average null, no spike, status       *)
(* HEALTHY and both low-rating counts 0.                                   *)
C13_NoReviews ==
    (Returned /\ allReviews = <<>>) =>
        /\ metrics.lifetimeAvgRating[1] = 0
        /\ metrics.recentAvgRating = Null
        /\ metrics.hasLowRatingSpike = FALSE
        /\ metrics.reputationStatus = "HEALTHY"
        /\ metrics.recentLowRatingCount = 0
        /\ metrics.previousLowRatingCount = 0

(* The engine has returned for a business with no stored reviews. *)
C13_Witness ==
    /\ Returned
    /\ allReviews = <<>>
    /\ metrics # NoMetrics

(* C14, as claimed: when the status of a business was AT_RISK and one      *)
(* review rated 1 and dated now is stored, nothing being removed, the      *)
(* status at the same now is still AT_RISK.                                *)
C14_MonotonicInRisk ==
    (Returned /\ StoredOneStarToday /\ statusBefore = "AT_RISK") =>
        metrics.reputationStatus = "AT_RISK"

(* C15, as claimed: the status is AT_RISK iff 3 or more reviews of the     *)
(* last 30 days are rated 2 or less or the rating drop is 0.7 or more;     *)
(* otherwise WATCH iff there is one such review or the drop is 0.4 or      *)
(* more; otherwise HEALTHY; the drop being the lifetime average minus the  *)
(* 30-day average, 0 when the 30-day window is empty.                      *)
C15_StatusDecision ==
    Returned =>
        metrics.reputationStatus =
            IF Cardinality(LowRated(Last30Days)) >= 3 \/ DropReaches(7)
            THEN "AT_RISK"
            ELSE IF Cardinality(LowRated(Last30Days)) >= 1 \/ DropReaches(4)
                 THEN "WATCH"
                 ELSE "HEALTHY"

C17_ReadmeSpikeRule ==
    Returned =>
        LET recent == Cardinality(LowRated(Last7Days))
            previous == Cardinality(LowRated(Previous7Days))
        IN  metrics.hasLowRatingSpike <=>
               \/ recent >= 2 * previous /\ recent - previous >= 2
               \/ recent - previous >= 3

---------------------------------------------------------------------------
(* GET /api/reviews (app/api/reviews/route.ts)                             *)
(*                                                                         *)
(* A numeric search parameter is the sequence of its characters, so that   *)
(* parseInt reads it as the source's does; businessId, riskLevel and       *)
(* needsAttention are compared whole and stay strings.  A row of           *)
(* prisma.review carries here the date the route filters and orders by.    *)

MaxRows == 2            \* rows of prisma.review when the request arrives

DEFAULT_LIMIT == <<"5", "0">>

DigitChars == <<"0", "1", "2", "3", "4", "5", "6", "7", "8", "9">>

IsDigit(c) == \E i \in DOMAIN DigitChars : DigitChars[i] = c

DigitValue(c) == (CHOOSE i \in DOMAIN DigitChars : DigitChars[i] = c) - 1

RECURSIVE SkipWhiteSpace(_)
SkipWhiteSpace(str) ==
    IF str # <<>> /\ Head(str) = " " THEN SkipWhiteSpace(Tail(str)) ELSE str

RECURSIVE ReadDigits(_, _)
ReadDigits(str, acc) ==
    IF str # <<>> /\ IsDigit(Head(str))
    THEN ReadDigits(Tail(str), 10 * acc + DigitValue(Head(str)))
    ELSE acc

(* parseInt(str), radix 10: white space is skipped, a sign is read, then   *)
(* the longest run of digits, and whatever follows is ignored; with no     *)
(* digit there the result is NaN, here the empty set.                      *)
parseInt(str) ==
    LET trimmed == SkipWhiteSpace(str)
        signed  == trimmed # <<>> /\ Head(trimmed) \in {"-", "+"}
        body    == IF signed THEN Tail(trimmed) ELSE trimmed
    IN  IF body = <<>> \/ ~IsDigit(Head(body)) THEN {}
        ELSE IF signed /\ Head(trimmed) = "-"
             THEN { 0 - ReadDigits(body, 0) }
             ELSE { ReadDigits(body, 0) }

(* if (param): the parameter is present and not the empty string *)
Truthy(param) == \E v \in param : v # <<>>
TruthyText(param) == \E v \in param : v # ""

(* n >= 1 && n <= 5, false of NaN *)
InRatingRange(num) == \E n \in num : n >= 1 /\ n <= 5

validRiskLevels == {"HIGH_RISK", "MEDIUM_RISK", "LOW_RISK"}

IsValidRiskLevel_Unchecked(param) == param = param

IsValidRiskLevel(param) == param \subseteq validRiskLevels

NeedsAttention(req) == req.needsAttention = {"true"}

ValidatesRiskLevel_EvenWhenNeedsAttention(req) == TruthyText(req.riskLevel)

ValidatesRiskLevel(req) == TruthyText(req.riskLevel) /\ ~NeedsAttention(req)

BadRequest(message) ==
    [status |-> 400, error |-> message, reviews |-> <<>>,
     distribution |-> NoDistribution]

(* The handler up to its first await: the response it returns at once,     *)
(* or the filter object it goes on to query with.                          *)
BuildWhere(req, t) ==
    LET w1 == [EmptyWhere EXCEPT
                  !.businessId =
                      IF TruthyText(req.businessId) THEN req.businessId
                      ELSE Absent]
        w2 == IF NeedsAttention(req)
              THEN [w1 EXCEPT !.riskLevel = {"HIGH_RISK"},
                              !.date_gte = {t - 30}]
              ELSE w1
        w3 == IF ValidatesRiskLevel(req)
              THEN [w2 EXCEPT !.riskLevel = req.riskLevel]
              ELSE w2
        ratingNum == UNION { parseInt(v) : v \in req.rating }
        min == UNION { parseInt(v) : v \in req.minRating }
        max == UNION { parseInt(v) : v \in req.maxRating }
        w4 == IF Truthy(req.rating)
              THEN [w3 EXCEPT !.rating = ratingNum]
              ELSE [w3 EXCEPT
                      !.rating_gte =
                          IF Truthy(req.minRating) /\ InRatingRange(min)
                          THEN min ELSE Absent,
                      !.rating_lte =
                          IF Truthy(req.maxRating) /\ InRatingRange(max)
                          THEN max ELSE Absent]
    IN  IF ValidatesRiskLevel(req) /\ ~IsValidRiskLevel(req.riskLevel)
        THEN [returned |-> TRUE, where |-> EmptyWhere, response |->
                 BadRequest("Invalid risk level. Must be HIGH_RISK, MEDIUM_RISK, or LOW_RISK")]
        ELSE IF Truthy(req.rating) /\ ~InRatingRange(ratingNum)
             THEN [returned |-> TRUE, where |-> EmptyWhere, response |->
                      BadRequest("Rating must be between 1 and 5")]
             ELSE [returned |-> FALSE, where |-> w4, response |-> NoResponse]

(* prisma.review.findMany / groupBy, over the rows the filter selects *)
Matches(row, w) ==
    /\ \A v \in w.businessId : row.businessId = v
    /\ \A v \in w.riskLevel : row.riskLevel = v
    /\ \A v \in w.date_gte : row.date >= v
    /\ \A v \in w.rating : row.rating = v
    /\ \A v \in w.rating_gte : row.rating >= v
    /\ \A v \in w.rating_lte : row.rating <= v

Selected(w) == { row \in dbReview : Matches(row, w) }

(* orderBy date desc: rows of one date come in any order *)
NewestFirst(rows) ==
    { seq \in [1..Cardinality(rows) -> rows] :
        /\ \A i, j \in DOMAIN seq : i # j => seq[i] # seq[j]
        /\ \A i, j \in DOMAIN seq : i < j => seq[i].date >= seq[j].date }

Limit(req) ==
    parseInt(IF Truthy(req.limit) THEN CHOOSE v \in req.limit : TRUE
             ELSE DEFAULT_LIMIT)

Take(seq, num) ==
    LET n == CHOOSE k \in num : TRUE
    IN  SubSeq(seq, 1, IF n < Len(seq) THEN n ELSE Len(seq))

(* The distribution counted over the rows of the page that findMany       *)
(* returned, and not over the rows matching the filter.                    *)
Distribution_OfPage(rows) ==
    [level \in validRiskLevels |->
        Cardinality({ i \in DOMAIN reviews : reviews[i].riskLevel = level })]

Distribution(rows) ==
    [level \in validRiskLevels |->
        Cardinality({ row \in rows : row.riskLevel = level })]

(* The handler builds the filter, or returns 400. *)
GetReviews ==
    /\ routePc = "received"
    /\ LET built == BuildWhere(request, now)
       IN  IF built.returned
           THEN /\ response' = built.response
                /\ routePc' = "responded"
                /\ where' = where
           ELSE /\ where' = built.where
                /\ routePc' = "findMany"
                /\ response' = response
    /\ UNCHANGED <<importerVars, engineVars, listVars, pageVars, request, reviews, queries>>

(* await prisma.review.findMany resolves *)
FindMany ==
    /\ routePc = "findMany"
    /\ \E ordered \in NewestFirst(Selected(where)) :
          reviews' = Take(ordered, Limit(request))
    /\ queries' = queries + 1
    /\ routePc' = "groupBy"
    /\ UNCHANGED <<importerVars, engineVars, listVars, pageVars, request, where, response>>

(* await prisma.review.groupBy resolves, and the handler answers *)
GroupBy ==
    /\ routePc = "groupBy"
    /\ response' = [status |-> 200, error |-> "", reviews |-> reviews,
                    distribution |-> Distribution(Selected(where))]
    /\ queries' = queries + 1
    /\ routePc' = "responded"
    /\ UNCHANGED <<importerVars, engineVars, listVars, pageVars, request, where, reviews>>

(* Either query rejects: the catch block answers 500. *)
QueryFails ==
    /\ routePc \in {"findMany", "groupBy"}
    /\ queries' = queries + 1
    /\ response' = [status |-> 500, error |-> "Failed to fetch reviews",
                    reviews |-> <<>>, distribution |-> NoDistribution]
    /\ routePc' = "responded"
    /\ UNCHANGED <<importerVars, engineVars, listVars, pageVars, request, where, reviews>>

NextReviews ==
    \/ GetReviews
    \/ FindMany
    \/ GroupBy
    \/ QueryFails

QueryRow(id, business, rating, date) ==
    [id |-> id, businessId |-> business, rating |-> rating,
     riskLevel |-> getRiskLevelFromRating(rating), date |-> date]

(* Rows on both sides of the 30-day boundary, of the three levels. *)
QueryRows ==
    { QueryRow("r1", "b1", 1, -1), QueryRow("r2", "b1", 2, -31),
      QueryRow("r3", "b1", 4, -1), QueryRow("r4", "b2", 1, -30),
      QueryRow("r5", "b1", 3, -2), QueryRow("r6", "b2", 5, -31) }

Requests ==
    [businessId : {Absent, {"b1"}},
     riskLevel : {Absent, {""}, {"HIGH_RISK"}, {"MEDIUM_RISK"}, {"LOW_RISK"},
                  {"CRITICAL"}},
     rating : {Absent, {<<>>}, {<<"3">>}, {<<"7">>}, {<<"0">>},
               {<<"3", ".", "7">>}, {<<"a">>}, {<<"1", "a">>}},
     minRating : {Absent, {<<"2">>}, {<<"9">>}},
     maxRating : {Absent, {<<"4">>}},
     limit : {Absent, {<<"1">>}},
     needsAttention : {Absent, {"true"}, {"false"}}]

InitReviews ==
    /\ ImporterIdle
    /\ EngineAtRest
    /\ ListAtRest
    /\ PageAtRest
    /\ dbBusiness = {}
    /\ dbReview \in { t \in SUBSET QueryRows : Cardinality(t) <= MaxRows }
    /\ request \in Requests
    /\ routePc = "received"
    /\ where = EmptyWhere
    /\ reviews = <<>>
    /\ response = NoResponse
    /\ queries = 0

SpecReviews == InitReviews /\ [][NextReviews]_vars

---------------------------------------------------------------------------
(* What the claims about the route read from a state *)

Responded == routePc = "responded"
CarriesRiskLevel == \E v \in request.riskLevel : v # ""
CarriesRating == \E v \in request.rating : v # <<>>
RiskLevelIsOneOfThree ==
    request.riskLevel \subseteq {"HIGH_RISK", "MEDIUM_RISK", "LOW_RISK"}
RatingIsIntegerInRange ==
    request.rating \subseteq { <<"1">>, <<"2">>, <<"3">>, <<"4">>, <<"5">> }
HighRiskAndRecent(row) ==
    row.riskLevel = "HIGH_RISK" /\ row.date >= now - 30

(* C18: with needsAttention=true the filter is riskLevel = HIGH_RISK and   *)
(* date >= now - 30 days; the riskLevel parameter changes nothing, valid   *)
(* or not (the handler does what it does for the request without it, and   *)
(* never answers that the risk level is invalid); and every review         *)
(* returned is HIGH_RISK and dated no earlier than 30 days before now.     *)
C18_NeedsAttentionFilter ==
    request.needsAttention = {"true"} =>
        /\ routePc \in {"findMany", "groupBy"} \/ response.status = 200 =>
               /\ where.riskLevel = {"HIGH_RISK"}
               /\ where.date_gte = {now - 30}
        /\ BuildWhere(request, now) =
               BuildWhere([request EXCEPT !.riskLevel = Absent], now)
        /\ response.error \notin
               {"Invalid risk level. Must be HIGH_RISK, MEDIUM_RISK, or LOW_RISK"}
        /\ \A i \in DOMAIN reviews : HighRiskAndRecent(reviews[i])
        /\ \A i \in DOMAIN response.reviews :
               HighRiskAndRecent(response.reviews[i])

(* A needsAttention request carrying riskLevel=CRITICAL has been answered  *)
(* 200 with the one recent HIGH_RISK row, an older HIGH_RISK row being     *)
(* stored.                                                                 *)
C18_Witness ==
    /\ Responded
    /\ request.needsAttention = {"true"}
    /\ request.riskLevel = {"CRITICAL"}
    /\ response.status = 200
    /\ Len(response.reviews) = 1
    /\ \E row \in dbReview :
          row.riskLevel = "HIGH_RISK" /\ row.date < now - 30

(* C19, as claimed: a request whose rating parameter is not an integer of  *)
(* 1..5 executes no storage query and is answered 400.                     *)
C19_InvalidRatingRejected ==
    (CarriesRating /\ ~RatingIsIntegerInRange) =>
        /\ queries = 0
        /\ Responded => response.status = 400

(* C20, as claimed: every request carrying a riskLevel value that is not   *)
(* one of HIGH_RISK, MEDIUM_RISK, LOW_RISK executes no storage query and   *)
(* is answered 400, never 500.                                             *)
C20_InvalidRiskLevelRejected ==
    (CarriesRiskLevel /\ ~RiskLevelIsOneOfThree) =>
        /\ queries = 0
        /\ Responded => response.status = 400

(* C20, amended: every request that is not a needsAttention=true one and   *)
(* carries a non-empty riskLevel value that is not one of the three        *)
(* levels goes from its arrival straight to the response, which is the     *)
(* 400 of the risk level check, with no storage query executed.            *)
C20_InvalidRiskLevelRejectedUnlessNeedsAttention ==
    (CarriesRiskLevel /\ ~RiskLevelIsOneOfThree
        /\ request.needsAttention # {"true"}) =>
        /\ routePc \in {"received", "responded"}
        /\ queries = 0
        /\ Responded =>
               /\ response.status = 400
               /\ response.error =
                      "Invalid risk level. Must be HIGH_RISK, MEDIUM_RISK, or LOW_RISK"

(* riskLevel=CRITICAL, without needsAttention, has been answered 400 over  *)
(* a table that holds rows.                                                *)
C20_Witness ==
    /\ Responded
    /\ request.riskLevel = {"CRITICAL"}
    /\ request.needsAttention = Absent
    /\ response.status = 400
    /\ queries = 0
    /\ dbReview # {}

---------------------------------------------------------------------------
(* Further claims about computeReputationMetrics *)

DatedExactly(date) == { i \in DOMAIN allReviews : allReviews[i].date = date }

(* C24: whenever computeReputationMetrics reports a low-rating spike the   *)
(* status it reports is WATCH or AT_RISK, never HEALTHY.                   *)
C24_SpikeIsNeverHealthy ==
    (Returned /\ metrics.hasLowRatingSpike) =>
        metrics.reputationStatus \in {"WATCH", "AT_RISK"}

(* A spike has been reported with status WATCH, on two low ratings of the  *)
(* last 7 days and none before.                                            *)
C24_Witness ==
    /\ Returned
    /\ metrics.hasLowRatingSpike
    /\ metrics.reputationStatus = "WATCH"
    /\ Cardinality(LowRated(Last7Days)) = 2
    /\ LowRated(Previous7Days) = {}

(* C25: when no stored review is dated within the last 30 days the status  *)
(* is HEALTHY, the spike flag is false and the recent average is null,     *)
(* whatever the older ratings are.                                         *)
C25_NothingRecent ==
    (Returned /\ Last30Days = {}) =>
        /\ metrics.reputationStatus = "HEALTHY"
        /\ metrics.hasLowRatingSpike = FALSE
        /\ metrics.recentAvgRating = Null

(* The engine has returned for a business whose reviews are all older than *)
(* 30 days, low ratings among them.                                        *)
C25_Witness ==
    /\ Returned
    /\ Last30Days = {}
    /\ Len(allReviews) >= 3
    /\ \E i \in DOMAIN allReviews : allReviews[i].rating = 1
    /\ metrics # NoMetrics

(* C26: no review is counted in both low-rating counts.  The two counts    *)
(* add up to the low ratings dated now - 14 days or later; a low rating    *)
(* dated exactly now - 7 days is in the recent count and not in the        *)
(* previous one, one dated exactly now - 14 days is in the previous count  *)
(* and not in the recent one, and an older one is in neither.              *)
C26_WindowBoundaries ==
    Returned =>
        LET low == LowRated(DOMAIN allReviews)
            after7  == { i \in low : allReviews[i].date > now - 7 }
            at7     == low \cap DatedExactly(now - 7)
            between == { i \in low : allReviews[i].date > now - 14
                                     /\ allReviews[i].date < now - 7 }
            at14    == low \cap DatedExactly(now - 14)
        IN  /\ metrics.recentLowRatingCount =
                   Cardinality(after7) + Cardinality(at7)
            /\ metrics.previousLowRatingCount =
                   Cardinality(between) + Cardinality(at14)
            /\ metrics.recentLowRatingCount + metrics.previousLowRatingCount
                   = Cardinality({ i \in low : allReviews[i].date >= now - 14 })

(* Low ratings dated exactly now - 7 days, exactly now - 14 days and       *)
(* earlier have been counted: one in each count.                           *)
C26_Witness ==
    /\ Returned
    /\ LowRated(DatedExactly(now - 7)) # {}
    /\ LowRated(DatedExactly(now - 14)) # {}
    /\ LowRated(DatedExactly(now - 30)) # {}
    /\ metrics.recentLowRatingCount = 1
    /\ metrics.previousLowRatingCount = 1


(***************************************************************************)
(* Further claims about GET /api/reviews                                   *)
(***************************************************************************)
Answered200 == Responded /\ response.status = 200

(* The stored reviews that satisfy the filter of the request. *)
MatchingFilter == { row \in dbReview : Matches(row, where) }

RequestedLimit == IF request.limit = {<<"1">>} THEN 1 ELSE 50

DistributionTotal ==
    response.distribution["HIGH_RISK"] + response.distribution["MEDIUM_RISK"]
        + response.distribution["LOW_RISK"]

(* C21: in a 200 answer the three counts of the distribution sum to the    *)
(* number of stored reviews matching the filter, each count being the      *)
(* number of matching reviews of its level, whatever the limit; and the    *)
(* list returned has min(limit, matching) rows, all of them matching, the  *)
(* limit being 50 when the request carries none.                           *)
C21_DistributionOverSameFilter ==
    Answered200 =>
        /\ DistributionTotal = Cardinality(MatchingFilter)
        /\ \A level \in validRiskLevels :
               response.distribution[level] =
                   Cardinality({ row \in MatchingFilter : row.riskLevel = level })
        /\ Len(response.reviews) =
               IF RequestedLimit < Cardinality(MatchingFilter)
               THEN RequestedLimit ELSE Cardinality(MatchingFilter)
        /\ \A i \in DOMAIN response.reviews :
               response.reviews[i] \in MatchingFilter

(* A request with limit=1 has been answered 200 with one review, two       *)
(* stored reviews matching its filter and the distribution counting both.  *)
C21_Witness ==
    /\ Answered200
    /\ request.limit = {<<"1">>}
    /\ Cardinality(MatchingFilter) = 2
    /\ Len(response.reviews) = 1
    /\ DistributionTotal = 2

MinRatingOutOfRange ==
    \E v \in request.minRating : v # <<>> /\ ~InRatingRange(parseInt(v))

MaxRatingOutOfRange ==
    \E v \in request.maxRating : v # <<>> /\ ~InRatingRange(parseInt(v))

(* C23, as claimed: a request whose minRating or maxRating parameter is    *)
(* outside 1..5 executes no storage query and is answered 400.             *)
C23_OutOfRangeBoundRejected ==
    (MinRatingOutOfRange \/ MaxRatingOutOfRange) =>
        /\ queries = 0
        /\ Responded => response.status = 400


(***************************************************************************)
(* GET /api/businesses: findMany ordered by reviewCount, one callback per  *)
(* business awaiting computeReputationMetrics, Promise.all over them.      *)
(***************************************************************************)
(* prisma.business.findMany with orderBy reviewCount desc: rows of equal   *)
(* reviewCount come in any order.                                          *)
ByReviewCountDesc(rows) ==
    { seq \in [1..Cardinality(rows) -> rows] :
        /\ \A i, j \in DOMAIN seq : i # j => seq[i] # seq[j]
        /\ \A i, j \in DOMAIN seq :
               i < j => seq[i].reviewCount >= seq[j].reviewCount }

(* What the findMany of computeReputationMetrics resolves to. *)
ReviewsOfBusiness(businessId) ==
    CHOOSE seq \in NewestFirst({ row \in dbReview :
                                    row.businessId = businessId }) : TRUE

(* Every callback closing over the first business of the list. *)
BusinessOfCallback_First(i) == listed[1]

(* The business that the i-th callback of the map closes over. *)
BusinessOfCallback(i) == listed[i]

(* What the callback returns: the business and three of its metrics. *)
WithMetrics(business, m) ==
    [id |-> business.id, name |-> business.name, city |-> business.city,
     state |-> business.state, reviewCount |-> business.reviewCount,
     reputationStatus |-> m.reputationStatus,
     hasLowRatingSpike |-> m.hasLowRatingSpike,
     recentLowRatingCount |-> m.recentLowRatingCount]

ListFailure == [status |-> 500, businesses |-> <<>>]

(* await prisma.business.findMany resolves; map starts every callback,     *)
(* each running up to its await, and Promise.all waits for them.           *)
ListFindMany ==
    /\ listPc = "findMany"
    /\ \E ordered \in ByReviewCountDesc(dbBusiness) : listed' = ordered
    /\ pending' = 1..Cardinality(dbBusiness)
    /\ listPc' = "promiseAll"
    /\ UNCHANGED <<importerVars, engineVars, routeVars, pageVars, entries,
                   listResponse>>

(* prisma.business.findMany rejects: the catch block answers 500. *)
ListFindManyFails ==
    /\ listPc = "findMany"
    /\ listResponse' = ListFailure
    /\ listPc' = "responded"
    /\ UNCHANGED <<importerVars, engineVars, routeVars, pageVars, listed,
                   pending, entries>>

(* The computeReputationMetrics awaited by the i-th callback resolves and  *)
(* the callback returns, in any order among the callbacks.                 *)
MetricsResolved(i) ==
    /\ listPc \in {"promiseAll", "responded"}
    /\ i \in pending
    /\ LET business == BusinessOfCallback(i)
           m == computeReputationMetrics(ReviewsOfBusiness(business.id), now)
       IN  entries' = [j \in DOMAIN entries \cup {i} |->
                         IF j = i THEN WithMetrics(business, m) ELSE entries[j]]
    /\ pending' = pending \ {i}
    /\ UNCHANGED <<importerVars, engineVars, routeVars, pageVars, listPc,
                   listed, listResponse>>

(* The computeReputationMetrics awaited by the i-th callback rejects:      *)
(* Promise.all rejects at the first rejection and the catch block answers  *)
(* 500, the other callbacks still running.                                 *)
MetricsRejected(i) ==
    /\ listPc \in {"promiseAll", "responded"}
    /\ i \in pending
    /\ pending' = pending \ {i}
    /\ IF listPc = "promiseAll"
       THEN listResponse' = ListFailure /\ listPc' = "responded"
       ELSE UNCHANGED <<listResponse, listPc>>
    /\ UNCHANGED <<importerVars, engineVars, routeVars, pageVars, listed,
                   entries>>

(* Promise.all resolves once every callback has returned, with their       *)
(* results in the order of the list, and the handler answers.              *)
AllResolved == pending = {} /\ DOMAIN entries = DOMAIN listed

ListRespond ==
    /\ listPc = "promiseAll"
    /\ AllResolved
    /\ listResponse' = [status |-> 200,
                        businesses |-> [i \in 1..Len(listed) |-> entries[i]]]
    /\ listPc' = "responded"
    /\ UNCHANGED <<importerVars, engineVars, routeVars, pageVars, listed,
                   pending, entries>>

NextBusinesses ==
    \/ ListFindMany
    \/ ListFindManyFails
    \/ \E i \in 1..Cardinality(dbBusiness) : MetricsResolved(i)
    \/ \E i \in 1..Cardinality(dbBusiness) : MetricsRejected(i)
    \/ ListRespond

ListingRow(id, reviewCount) ==
    [id |-> id, name |-> id, city |-> "Tampa", state |-> "FL",
     reviewCount |-> reviewCount]

(* Three businesses, two of them with the same reviewCount. *)
ListingRows ==
    { ListingRow("b1", 5), ListingRow("b2", 9), ListingRow("b3", 5) }

(* Reviews that give the three businesses different metrics. *)
ListingReviews ==
    QueryRows \cup { QueryRow("r7", "b3", 2, -3), QueryRow("r8", "b3", 1, -5) }

InitBusinesses ==
    /\ ImporterIdle
    /\ EngineAtRest
    /\ RouteAtRest
    /\ PageAtRest
    /\ dbBusiness \in SUBSET ListingRows
    /\ dbReview \in { t \in SUBSET ListingReviews : Cardinality(t) <= MaxRows }
    /\ listPc = "findMany"
    /\ listed = <<>>
    /\ pending = {}
    /\ entries = <<>>
    /\ listResponse = [status |-> 0, businesses |-> <<>>]

SpecBusinesses == InitBusinesses /\ [][NextBusinesses]_vars

ListAnswered200 == listPc = "responded" /\ listResponse.status = 200

MetricsOfBusiness(businessId) ==
    computeReputationMetrics(ReviewsOfBusiness(businessId), now)

(* C22: whatever the order in which the metric computations complete, a    *)
(* 200 answer is built with no computation still pending, holds exactly    *)
(* one entry for each stored business, in order of non-increasing          *)
(* reviewCount, and each entry carries the fields of its business and the  *)
(* reputationStatus, hasLowRatingSpike and recentLowRatingCount computed   *)
(* from the reviews of that same business.                                 *)
C22_ListingAfterAllResolved ==
    ListAnswered200 =>
        LET out == listResponse.businesses
        IN  /\ pending = {}
            /\ Len(out) = Cardinality(dbBusiness)
            /\ \A row \in dbBusiness :
                   Cardinality({ i \in DOMAIN out : out[i].id = row.id }) = 1
            /\ \A i \in DOMAIN out :
                   /\ ListingRow(out[i].id, out[i].reviewCount) \in dbBusiness
                   /\ out[i].reputationStatus =
                          MetricsOfBusiness(out[i].id).reputationStatus
                   /\ out[i].hasLowRatingSpike =
                          MetricsOfBusiness(out[i].id).hasLowRatingSpike
                   /\ out[i].recentLowRatingCount =
                          MetricsOfBusiness(out[i].id).recentLowRatingCount
            /\ \A i, j \in DOMAIN out :
                   i < j => out[i].reviewCount >= out[j].reviewCount

(* Three businesses have been listed, b2 first, one of them on WATCH with  *)
(* a spike and another HEALTHY.                                            *)
C22_Witness ==
    /\ ListAnswered200
    /\ Len(listResponse.businesses) = 3
    /\ listResponse.businesses[1].id = "b2"
    /\ \E i, j \in DOMAIN listResponse.businesses :
          /\ listResponse.businesses[i].hasLowRatingSpike
          /\ listResponse.businesses[i].reputationStatus = "WATCH"
          /\ listResponse.businesses[j].reputationStatus = "HEALTHY"


(***************************************************************************)
(* The dashboard page: fetchBusinesses on mount, fetchReviews from the     *)
(* effect on selectedBusinessId and needsAttention.                        *)
(***************************************************************************)
MaxFetches == 3

(* The request that fetchReviews sends. *)
ReviewsRequest(businessId, mode) ==
    [NoRequest EXCEPT !.businessId = {businessId},
                      !.needsAttention = IF mode THEN {"true"} ELSE Absent]

(* The lists that GET /api/reviews may answer that request with. *)
ReviewsResponses(businessId, mode) ==
    LET req == ReviewsRequest(businessId, mode)
    IN  { Take(ordered, Limit(req)) :
            ordered \in NewestFirst(Selected(BuildWhere(req, now).where)) }

(* fetchReviews up to its await: the loading flag is set and the request   *)
(* is sent with the needsAttention of the render that made the callback.   *)
FetchReviewsStarted(businessId, mode) ==
    /\ reviewsLoading' = TRUE
    /\ inFlight' = inFlight \cup
           {[n |-> issued + 1, businessId |-> businessId,
             needsAttention |-> mode]}
    /\ issued' = issued + 1

(* fetchBusinesses resolves with a non-empty list: the first business is   *)
(* selected and the effect fetches its reviews.                            *)
BusinessesLoaded ==
    /\ pagePc = "loading"
    /\ dbBusiness # {}
    /\ \E ordered \in ByReviewCountDesc(dbBusiness) :
          /\ selectedBusinessId' = ordered[1].id
          /\ FetchReviewsStarted(ordered[1].id, needsAttention)
    /\ pagePc' = "ready"
    /\ UNCHANGED <<importerVars, engineVars, routeVars, listVars,
                   needsAttention, pageReviews, fetchFailed>>

(* fetchBusinesses fails, or the list is empty: nothing is selected. *)
BusinessesNotLoaded ==
    /\ pagePc = "loading"
    /\ pagePc' = "ready"
    /\ UNCHANGED <<importerVars, engineVars, routeVars, listVars,
                   selectedBusinessId, needsAttention, pageReviews,
                   reviewsLoading, inFlight, issued, fetchFailed>>

(* The selector and the button are rendered once a business is selected. *)
ControlsShown == pagePc = "ready" /\ selectedBusinessId # ""

(* onValueChange of the Select, and the effect that follows the render. *)
SelectBusiness(businessId) ==
    /\ ControlsShown
    /\ issued < MaxFetches
    /\ businessId # selectedBusinessId
    /\ selectedBusinessId' = businessId
    /\ FetchReviewsStarted(businessId, needsAttention)
    /\ UNCHANGED <<importerVars, engineVars, routeVars, listVars, pagePc,
                   needsAttention, pageReviews, fetchFailed>>

(* onClick of the needs-attention button: fetchReviews is made anew and    *)
(* the effect runs again.                                                  *)
ToggleNeedsAttention ==
    /\ ControlsShown
    /\ issued < MaxFetches
    /\ needsAttention' = ~needsAttention
    /\ FetchReviewsStarted(selectedBusinessId, ~needsAttention)
    /\ UNCHANGED <<importerVars, engineVars, routeVars, listVars, pagePc,
                   selectedBusinessId, pageReviews, fetchFailed>>

(* A fetch resolves with success: its reviews are displayed and the        *)
(* loading flag is cleared, whichever fetch it is.                         *)
FetchResolved(f) ==
    /\ f \in inFlight
    /\ \E rows \in ReviewsResponses(f.businessId, f.needsAttention) :
          pageReviews' = rows
    /\ reviewsLoading' = FALSE
    /\ inFlight' = inFlight \ {f}
    /\ UNCHANGED <<importerVars, engineVars, routeVars, listVars, pagePc,
                   selectedBusinessId, needsAttention, issued, fetchFailed>>

(* A fetch rejects, or is answered without success: the list displayed     *)
(* stays and the loading flag is cleared.                                  *)
FetchFailed(f) ==
    /\ f \in inFlight
    /\ fetchFailed' = TRUE
    /\ reviewsLoading' = FALSE
    /\ inFlight' = inFlight \ {f}
    /\ UNCHANGED <<importerVars, engineVars, routeVars, listVars, pagePc,
                   selectedBusinessId, needsAttention, pageReviews, issued>>

Fetches ==
    [n : 1..MaxFetches, businessId : { row.id : row \in dbBusiness },
     needsAttention : BOOLEAN]

NextPage ==
    \/ BusinessesLoaded
    \/ BusinessesNotLoaded
    \/ \E row \in dbBusiness : SelectBusiness(row.id)
    \/ ToggleNeedsAttention
    \/ \E f \in Fetches : FetchResolved(f)
    \/ \E f \in Fetches : FetchFailed(f)

(* The tables the page is served from: b1 has reviews that need attention  *)
(* and reviews that do not, b2 as well, b3 has none.                       *)
PageTables ==
    { <<ListingRows, QueryRows>>,
      <<{ListingRow("b1", 5), ListingRow("b2", 9)}, QueryRows>>,
      <<{ListingRow("b1", 5)}, QueryRows>>,
      <<{}, {}>> }

InitPage ==
    /\ ImporterIdle
    /\ EngineAtRest
    /\ RouteAtRest
    /\ ListAtRest
    /\ \E tables \in PageTables :
          dbBusiness = tables[1] /\ dbReview = tables[2]
    /\ pagePc = "loading"
    /\ selectedBusinessId = ""
    /\ needsAttention = FALSE
    /\ pageReviews = <<>>
    /\ reviewsLoading = FALSE
    /\ inFlight = {}
    /\ issued = 0
    /\ fetchFailed = FALSE

SpecPage == InitPage /\ [][NextPage]_vars

(* C27, as claimed: whatever businesses were selected and however the      *)
(* mode was toggled, the loading flag is false only when no fetch is in    *)
(* flight; and once no fetch is in flight, none having failed, the list    *)
(* displayed is an answer to the request for the selected business in     *)
(* the current mode.                                                       *)
C27_DisplayedListIsCurrent ==
    ControlsShown =>
        /\ ~reviewsLoading => inFlight = {}
        /\ (inFlight = {} /\ ~fetchFailed) =>
               pageReviews \in ReviewsResponses(selectedBusinessId, needsAttention)

====
